---- MODULE Spec2Model ----
(***************************************************************************)
(* A model of app.py, the Nichirin chat relay: the predefined-answer       *)
(* matcher (match_predefined_answer), the response normalizer              *)
(* (_extract_text_from_gemini_response) and the /api/chat handler (chat).  *)
(*                                                                         *)
(* Text is a sequence of one-character strings, so that strip(), lower(),  *)
(* the substring test and difflib's matching blocks are computed and not   *)
(* assumed.                                                                *)
(***************************************************************************)
EXTENDS Integers, Sequences, FiniteSets, TLC

VARIABLES
    message,        \* match_predefined_answer: its argument
    matchPc,        \* "ready" before the call, "returned" after it
    matchResult,    \* match_predefined_answer: its return value
    scored,         \* whether the call reached the similarity pass
    response,       \* _extract_text_from_gemini_response: its argument
    extractPc,      \* "ready" before the call, "returned" after it
    extractResult,  \* what the call came to: a returned value, or a raise
    caught,         \* the handler that caught an error during the call
    client,         \* the module's client: NoClient or a configured client
    pc,             \* chat(): "idle", "calling" (inside the call) or "done"
    data,           \* chat(): the parsed body of the request
    user_message,   \* chat(): the extracted text
    resp,           \* chat(): the response sent
    calls,          \* the calls of the model issued for the request
    raised,         \* the exception the call raised, if any
    unhandled       \* the exception that left chat(), or "none"

matchVars == <<message, matchPc, matchResult, scored>>

extractVars == <<response, extractPc, extractResult, caught>>

chatVars == <<client, pc, data, user_message, resp, calls, raised, unhandled>>

vars == <<matchVars, extractVars, chatVars>>

(***************************************************************************)
(* Text helpers: Python's str methods on sequences of characters.          *)
(***************************************************************************)

\* the characters str.strip() removes (a space and a tab stand for all of them)
Whitespace == {" ", "\t"}

UpperCase == <<"A", "B", "C", "D", "E", "F", "G", "H", "I", "J", "K", "L", "M",
               "N", "O", "P", "Q", "R", "S", "T", "U", "V", "W", "X", "Y", "Z">>

LowerCase == <<"a", "b", "c", "d", "e", "f", "g", "h", "i", "j", "k", "l", "m",
               "n", "o", "p", "q", "r", "s", "t", "u", "v", "w", "x", "y", "z">>

\* str.lower() on one character
LowerChar(c) ==
    IF \E i \in 1..Len(UpperCase) : UpperCase[i] = c
    THEN LowerCase[CHOOSE i \in 1..Len(UpperCase) : UpperCase[i] = c]
    ELSE c

\* str.lower()
Lower(s) == [i \in 1..Len(s) |-> LowerChar(s[i])]

\* key in m: the substring test
Contains(m, key) ==
    \E i \in 0..(Len(m) - Len(key)) :
        \A j \in 1..Len(key) : m[i + j] = key[j]

RECURSIVE LStrip(_)
LStrip(s) ==
    IF s # <<>> /\ Head(s) \in Whitespace THEN LStrip(Tail(s)) ELSE s

RECURSIVE RStrip(_)
RStrip(s) ==
    IF s # <<>> /\ s[Len(s)] \in Whitespace
    THEN RStrip(SubSeq(s, 1, Len(s) - 1))
    ELSE s

\* str.strip()
Strip(s) == RStrip(LStrip(s))

(***************************************************************************)
(* The canned answers.  A Python dict iterates in insertion order, so the  *)
(* table is the sequence of its items; an answer is kept as one literal    *)
(* (its opening words), since no operation looks inside it.                *)
(***************************************************************************)

PREDEFINED_ANSWERS == <<
    [key    |-> <<"l", "i", "f", "e", " ", "s", "t", "o", "r", "y">>,
     answer |-> "I grew up fascinated by how technology connects people. ..."],
    [key    |-> <<"s", "u", "p", "e", "r", "p", "o", "w", "e", "r">>,
     answer |-> "My superpower is clarity ..."],
    [key    |-> <<"g", "r", "o", "w">>,
     answer |-> "First, emotional understanding ..."],
    [key    |-> <<"m", "i", "s", "c", "o", "n", "c", "e", "p", "t", "i", "o", "n">>,
     answer |-> "People sometimes think ..."],
    [key    |-> <<"b", "o", "u", "n", "d", "a", "r", "i", "e", "s">>,
     answer |-> "I push my limits by handling increasingly complex questions ..."] >>

NKeys == Len(PREDEFINED_ANSWERS)

\* Python's None, and a str value, as the two shapes of an Optional[str]
None == [isNone |-> TRUE, val |-> ""]
Some(v) == [isNone |-> FALSE, val |-> v]

(***************************************************************************)
(* difflib.SequenceMatcher(None, a, b).ratio() without junk (autojunk only *)
(* acts on a second sequence of 200 or more elements; the keys are short). *)
(* Positions are Python's: a[alo:ahi] is the elements alo+1 .. ahi.        *)
(***************************************************************************)

\* the length of the common prefix of a[i:ahi] and b[j:bhi]
RECURSIVE CommonLen(_, _, _, _, _, _)
CommonLen(a, b, i, j, ahi, bhi) ==
    IF i < ahi /\ j < bhi /\ a[i + 1] = b[j + 1]
    THEN 1 + CommonLen(a, b, i + 1, j + 1, ahi, bhi)
    ELSE 0

\* find_longest_match: <<i, j, k>> with k maximal, then i minimal, then j minimal
FindLongestMatch(a, b, alo, ahi, blo, bhi) ==
    LET starts == {p \in (alo..(ahi - 1)) \X (blo..(bhi - 1)) : a[p[1] + 1] = b[p[2] + 1]}
        len(p) == CommonLen(a, b, p[1], p[2], ahi, bhi)
    IN  IF starts = {} THEN <<alo, blo, 0>>
        ELSE LET best == CHOOSE p \in starts :
                            \A q \in starts :
                                \/ len(p) > len(q)
                                \/ /\ len(p) = len(q)
                                   /\ \/ p[1] < q[1]
                                      \/ p[1] = q[1] /\ p[2] <= q[2]
             IN  <<best[1], best[2], len(best)>>

\* the sum of the sizes of get_matching_blocks(): the longest block, then the
\* pieces to its left and to its right
RECURSIVE Matches(_, _, _, _, _, _)
Matches(a, b, alo, ahi, blo, bhi) ==
    IF alo >= ahi \/ blo >= bhi THEN 0
    ELSE LET x == FindLongestMatch(a, b, alo, ahi, blo, bhi)
         IN  IF x[3] = 0 THEN 0
             ELSE x[3] + Matches(a, b, alo, x[1], blo, x[2])
                       + Matches(a, b, x[1] + x[3], ahi, x[2] + x[3], bhi)

\* ratio(): 2.0 * matches / (len(a) + len(b)), 1.0 for two empty sequences, kept
\* as the exact fraction <<numerator, denominator>>.  The operands are integers
\* below 2^53 and IEEE division rounds correctly, so two such quotients compare
\* as floats exactly as the fractions do.
Ratio(a, b) ==
    IF Len(a) + Len(b) = 0 THEN <<1, 1>>
    ELSE <<2 * Matches(a, b, 0, Len(a), 0, Len(b)), Len(a) + Len(b)>>

\* x > y and x >= y on fractions with positive denominators
FracGT(x, y) == x[1] * y[2] > y[1] * x[2]
FracGE(x, y) == x[1] * y[2] >= y[1] * x[2]

\* the literal 0.55 of the final test, as 55/100
ThresholdNum == 55
ThresholdDen == 100
Threshold == <<ThresholdNum, ThresholdDen>>

(***************************************************************************)
(* match_predefined_answer                                                 *)
(***************************************************************************)

\* a slip in the first loop: the last matching key of the table wins
SubstringPassLast(m) ==
    IF \E i \in 1..NKeys : Contains(m, PREDEFINED_ANSWERS[i].key)
    THEN CHOOSE i \in 1..NKeys :
            /\ Contains(m, PREDEFINED_ANSWERS[i].key)
            /\ \A j \in (i + 1)..NKeys : ~Contains(m, PREDEFINED_ANSWERS[j].key)
    ELSE 0

\* the first loop, from key i on: the first key, in table order, that is a
\* substring of m (0 when the loop ends without returning)
RECURSIVE SubstringLoop(_, _)
SubstringLoop(m, i) ==
    IF i > NKeys THEN 0
    ELSE IF Contains(m, PREDEFINED_ANSWERS[i].key) THEN i
    ELSE SubstringLoop(m, i + 1)

SubstringPass(m) == SubstringLoop(m, 1)

\* a tie-break slip: ">=" lets a later key of equal ratio replace the best
BetterScoreOrEqual(ratio, best_score) == FracGE(ratio, best_score)

\* "if ratio > best_score": whether key i replaces the running best
BetterScore(ratio, best_score) == FracGT(ratio, best_score)

\* the second loop, from key i on, with the running best_score and best_key
\* (best_key 0 is Python's None); the result is <<best_score, best_key>>
RECURSIVE SimilarityPass(_, _, _, _)
SimilarityPass(m, i, best_score, best_key) ==
    IF i > NKeys THEN <<best_score, best_key>>
    ELSE LET ratio == Ratio(m, PREDEFINED_ANSWERS[i].key)
         IN  IF BetterScore(ratio, best_score)
             THEN SimilarityPass(m, i + 1, ratio, i)
             ELSE SimilarityPass(m, i + 1, best_score, best_key)

\* "if best_score >= 0.55 and best_key"
AcceptScore(best_score, best_key) == FracGE(best_score, Threshold) /\ best_key # 0

\* whether the call gets past both early returns, to "best_key = None"
ReachesSimilarityPass(msg) ==
    msg # <<>> /\ SubstringPass(Lower(msg)) = 0

match_predefined_answer(msg) ==
    IF msg = <<>> THEN None
    ELSE LET m == Lower(msg)
             hit == SubstringPass(m)
         IN  IF hit # 0 THEN Some(PREDEFINED_ANSWERS[hit].answer)
             ELSE LET best == SimilarityPass(m, 1, <<0, 1>>, 0)
                  IN  IF AcceptScore(best[1], best[2])
                      THEN Some(PREDEFINED_ANSWERS[best[2]].answer)
                      ELSE None

(***************************************************************************)
(* Python values, as far as _extract_text_from_gemini_response looks into  *)
(* them.  Every value carries s, the text str() gives for it.              *)
(*   missing   an attribute or key that is not there                       *)
(*   none      None                                                        *)
(*   str       a string                                                    *)
(*   int       a non-string scalar (5 is truthy, 0 is falsy)               *)
(*   list      a list or tuple of values                                   *)
(*   dict/obj  a mapping with the keys, or an object with the attributes,  *)
(*             content and text                                            *)
(* A plain dict has keys and no attributes, an object attributes and no    *)
(* keys, and str() of a value does not raise.                              *)
(***************************************************************************)

Missing == [t |-> "missing", s |-> <<>>]
PyNone == [t |-> "none", s |-> <<"N", "o", "n", "e">>]
PyStr(s) == [t |-> "str", s |-> s]
PyInt(digits) == [t |-> "int", s |-> digits]
PyList(items) == [t |-> "list", s |-> <<"[", "...", "]">>, items |-> items]
PyDict(content, text) == [t |-> "dict", s |-> <<"{", "...", "}">>, content |-> content, text |-> text]
PyObj(content, text) == [t |-> "obj", s |-> <<"<", "o", "b", "j", ">">>, content |-> content, text |-> text]

\* bool(v)
Truthy(v) ==
    CASE v.t = "str" -> v.s # <<>>
      [] v.t = "int" -> v.s # <<"0">>
      [] v.t = "list" -> v.items # <<>>
      [] v.t = "dict" -> v.content.t # "missing" \/ v.text.t # "missing"
      [] v.t = "obj" -> TRUE
      [] OTHER -> FALSE

\* c.get(name) on a dict, getattr(c, name, None) on anything else
Field(c, name) ==
    IF c.t \in {"dict", "obj"} /\ c[name].t # "missing" THEN c[name] ELSE PyNone

\* a or b or ""
FirstTruthy(a, b) ==
    IF Truthy(a) THEN a ELSE IF Truthy(b) THEN b ELSE PyStr(<<>>)

\* what a step of the function comes to: it returns v, it raises, or control
\* goes on to the next statement
Return(v) == [k |-> "return", v |-> v]
Raise == [k |-> "raise", v |-> PyNone]
Continue == [k |-> "next", v |-> PyNone]

RECURSIVE JoinWithSpaces(_)
JoinWithSpaces(strs) ==
    IF strs = <<>> THEN <<>>
    ELSE IF Len(strs) = 1 THEN strs[1].s
    ELSE strs[1].s \o <<" ">> \o JoinWithSpaces(Tail(strs))

\* return " ".join(p for p in parts if p).strip(): str.join raises TypeError
\* on an item that is not a string
JoinStrip(parts) ==
    LET kept == SelectSeq(parts, Truthy)
    IN  IF \E i \in 1..Len(kept) : kept[i].t # "str" THEN Raise
        ELSE Return(PyStr(Strip(JoinWithSpaces(kept))))

\* lines 104-105: a text attribute that is a string
DirectTextStep(rsp) ==
    IF rsp.text.t = "str" THEN Return(PyStr(Strip(rsp.text.s))) ELSE Continue

\* lines 110-114: the piece of each candidate, content before text
CandidateParts(candidates) ==
    [i \in 1..Len(candidates) |->
        FirstTruthy(Field(candidates[i], "content"), Field(candidates[i], "text"))]

\* lines 106-115: a candidates attribute that is a non-empty list or tuple
CandidatesStep(rsp) ==
    IF rsp.candidates.t = "list" /\ rsp.candidates.items # <<>>
    THEN JoinStrip(CandidateParts(rsp.candidates.items))
    ELSE Continue

\* lines 124-128: the pieces of the items of a nested content list
ContentItemParts(items) ==
    [i \in 1..Len(items) |->
        IF items[i].t = "dict"
        THEN FirstTruthy(Field(items[i], "text"), Field(items[i], "content"))
        ELSE PyStr(items[i].s)]

\* lines 121-132: the pieces of the outputs, text before content
RECURSIVE OutputParts(_)
OutputParts(outputs) ==
    IF outputs = <<>> THEN <<>>
    ELSE LET out == Head(outputs)
             here == IF out.t = "dict" /\ out.content.t = "list"
                     THEN ContentItemParts(out.content.items)
                     ELSE <<FirstTruthy(Field(out, "text"), Field(out, "content"))>>
         IN  here \o OutputParts(Tail(outputs))

\* the outputs step as the candidates step is written: only a non-empty list
OutputsBodyNonEmpty(rsp) ==
    IF rsp.outputs.t = "list" /\ rsp.outputs.items # <<>>
    THEN JoinStrip(OutputParts(rsp.outputs.items))
    ELSE Continue

\* lines 119-133, the body of the inner try: an outputs attribute that is a
\* list or tuple, empty or not
OutputsBody(rsp) ==
    IF rsp.outputs.t = "list"
    THEN JoinStrip(OutputParts(rsp.outputs.items))
    ELSE Continue

\* lines 116-135: "except Exception: pass" around the outputs step
OutputsStep(rsp) ==
    IF rsp.outputs.t = "missing" THEN Continue
    ELSE IF OutputsBody(rsp).k = "raise" THEN Continue
    ELSE OutputsBody(rsp)

\* lines 136-140: a dict with a non-blank string under text, reply or content
RECURSIVE MappingLoop(_, _)
MappingLoop(rsp, names) ==
    IF names = <<>> THEN Continue
    ELSE LET val == rsp.keys[Head(names)]
         IN  IF val.t = "str" /\ Strip(val.s) # <<>>
             THEN Return(PyStr(Strip(val.s)))
             ELSE MappingLoop(rsp, Tail(names))

MappingStep(rsp) ==
    IF rsp.isDict THEN MappingLoop(rsp, <<"text", "reply", "content">>) ELSE Continue

\* line 141: return str(response).strip() or ""
StringConversionStep(rsp) == Return(PyStr(Strip(rsp.str)))

\* the steps in the order of the source; the first that does not go on decides
RECURSIVE FirstDecided(_)
FirstDecided(steps) ==
    IF Len(steps) = 1 \/ Head(steps).k # "next" THEN Head(steps)
    ELSE FirstDecided(Tail(steps))

\* lines 104-141, the body of the outer try
ExtractBody(rsp) ==
    FirstDecided(<<DirectTextStep(rsp), CandidatesStep(rsp),
                   OutputsStep(rsp), MappingStep(rsp),
                   StringConversionStep(rsp)>>)

\* a slip: the body without the outer try, so that its error propagates
ExtractUnprotected(rsp) == ExtractBody(rsp)

\* lines 102-144: the body, and "except Exception: return str(response)"
_extract_text_from_gemini_response(rsp) ==
    IF ExtractBody(rsp).k = "raise"
    THEN Return(PyStr(rsp.str))
    ELSE ExtractBody(rsp)

\* which handler caught an error on the way: "outer" (line 142), "inner"
\* (line 134) or "none"
CaughtBy(rsp) ==
    IF ExtractBody(rsp).k = "raise" THEN "outer"
    ELSE IF /\ DirectTextStep(rsp).k = "next"
            /\ CandidatesStep(rsp).k = "next"
            /\ rsp.outputs.t # "missing"
            /\ OutputsBody(rsp).k = "raise"
    THEN "inner"
    ELSE "none"

(***************************************************************************)
(* chat(): the handler of POST /api/chat.                                  *)
(*                                                                         *)
(* data is what request.get_json(silent=True) gives: None for a missing or *)
(* unparsable body, else the parsed JSON value.  A JSON object is a dict   *)
(* with the keys message and messages (other says whether it holds any     *)
(* other key); the last element of messages may be a dict with the keys    *)
(* content, message and text.                                              *)
(***************************************************************************)

Body(msg, msgs, other) ==
    [t |-> "dict", s |-> <<"{", "...", "}">>, message |-> msg, messages |-> msgs, other |-> other]

MsgDict(content, msg, text) ==
    [t |-> "dict", s |-> <<"{", "...", "}">>, content |-> content, message |-> msg, text |-> text]

MessageChars == <<"m", "e", "s", "s", "a", "g", "e">>
MessagesChars == <<"m", "e", "s", "s", "a", "g", "e", "s">>

\* a response: jsonify({"reply": ...}) or jsonify({"error": ...}) with a status,
\* the text being a literal of the source followed by a computed part
JsonReply(lit, arg) ==
    [json |-> TRUE, status |-> 200, keys |-> {"reply"}, lit |-> lit, arg |-> arg]
JsonError(status, lit, arg) ==
    [json |-> TRUE, status |-> status, keys |-> {"error"}, lit |-> lit, arg |-> arg]

\* what the framework answers when the handler raises: a 500 page, no JSON
InternalServerError ==
    [json |-> FALSE, status |-> 500, keys |-> {}, lit |-> "Internal Server Error", arg |-> <<>>]

NoResp == [json |-> FALSE, status |-> 0, keys |-> {}, lit |-> "", arg |-> <<>>]

\* "if not data" (line 165)
NotData(d) ==
    CASE d.t = "none" -> TRUE
      [] d.t = "str" -> d.s = <<>>
      [] d.t = "int" -> d.s = <<"0">>
      [] d.t = "list" -> d.items = <<>>
      [] d.t = "dict" -> d.message.t = "missing" /\ d.messages.t = "missing" /\ ~d.other

\* name in data: a key of a dict, an element of a list, a substring of a
\* string; a TypeError on a number
In(d, name, chars) ==
    CASE d.t = "dict" -> IF d[name].t # "missing" THEN "yes" ELSE "no"
      [] d.t = "list" -> IF \E i \in 1..Len(d.items) : d.items[i].t = "str" /\ d.items[i].s = chars
                         THEN "yes" ELSE "no"
      [] d.t = "str" -> IF Contains(d.s, chars) THEN "yes" ELSE "no"
      [] OTHER -> "raise"

\* what the parsing of the body comes to
Respond(r) == [k |-> "respond", resp |-> r, text |-> <<>>, exc |-> "none"]
Crash(e) == [k |-> "raise", resp |-> NoResp, text |-> <<>>, exc |-> e]
Text(s) == [k |-> "text", resp |-> NoResp, text |-> s, exc |-> "none"]

\* last.get("content") or last.get("message") or last.get("text") or ""
LastText(last) ==
    LET get(name) == IF last[name].t = "missing" THEN PyNone ELSE last[name]
    IN  IF Truthy(get("content")) THEN get("content")
        ELSE IF Truthy(get("message")) THEN get("message")
        ELSE IF Truthy(get("text")) THEN get("text")
        ELSE PyStr(<<>>)

\* lines 172-182: the text of a messages value
MessagesText(msgs) ==
    IF msgs.t = "str" THEN Text(Strip(msgs.s))
    ELSE IF msgs.t = "list" /\ msgs.items # <<>>
    THEN LET last == msgs.items[Len(msgs.items)]
         IN  IF last.t = "str" THEN Text(Strip(last.s))
             ELSE IF last.t = "dict"
             THEN IF LastText(last).t = "str"
                  THEN Text(Strip(LastText(last).s))
                  ELSE Crash("AttributeError")
             ELSE Text(<<>>)
    ELSE Text(<<>>)

\* lines 168-184: user_message, an early response, or an exception
ExtractUserMessage(d) ==
    IF In(d, "message", MessageChars) = "raise" THEN Crash("TypeError")
    ELSE IF In(d, "message", MessageChars) = "yes" /\ d.t # "dict" THEN Crash("TypeError")
    ELSE IF In(d, "message", MessageChars) = "yes" /\ d.message.t = "str"
    THEN Text(Strip(d.message.s))
    ELSE IF In(d, "messages", MessagesChars) = "yes"
    THEN IF d.t # "dict" THEN Crash("TypeError") ELSE MessagesText(d.messages)
    ELSE Respond(JsonError(400, "No 'message' or 'messages' provided", <<>>))

\* lines 164-187
ParseInput(d) ==
    IF NotData(d) THEN Respond(JsonError(400, "No JSON body provided", <<>>))
    ELSE LET got == ExtractUserMessage(d)
         IN  IF got.k = "text" /\ got.text = <<>>
             THEN Respond(JsonError(400, "Empty message provided", <<>>))
             ELSE got

\* a slip: the canned answers are not consulted before the model is called
StaticReplySkipped(um) == None

\* line 191
StaticReply(um) == match_predefined_answer(um)

\* a slip: a missing client is reported as a server error
BackendNotConfiguredError ==
    JsonError(500, "Gemini backend is not configured on this server. ...", <<>>)

\* lines 198-209
BackendNotConfigured ==
    JsonReply("Gemini backend is not configured on this server. ...", <<>>)

\* a slip: the failure of the call is answered as a success carrying the message
GeminiErrorAsReply(e) == JsonReply("Gemini error: ", e)

\* lines 234-236: f"Gemini error: {str(e)}" with the server-error status
GeminiError(e) == JsonError(500, "Gemini error: ", e)

\* lines 213-224: the calling convention probed on the client, a set of the
\* capabilities it has
Convention(cl) ==
    IF "models.generate_content" \in cl THEN "models.generate_content"
    ELSE IF "generate" \in cl THEN "generate"
    ELSE IF "predict" \in cl THEN "predict"
    ELSE "call"

\* lines 226-233: the reply made of the model's response
GeneratedReply(rsp) ==
    LET got == _extract_text_from_gemini_response(rsp)
    IN  IF got.k = "raise" THEN GeminiError(<<>>)
        ELSE IF ~Truthy(got.v)
        THEN JsonReply("Received an empty response from the language model. ...", <<>>)
        ELSE JsonReply("", got.v.s)

\* the client of lines 39-45: None, or a client with some of the capabilities
\* chat() probes for
NoClient == [configured |-> FALSE, caps |-> {}]
Client(caps) == [configured |-> TRUE, caps |-> caps]

\* an exception raised by the call, with the text str(e) gives, or none
NoExc == [isExc |-> FALSE, msg |-> <<>>]
Exc(msg) == [isExc |-> TRUE, msg |-> msg]

\* the text of the TypeError of line 224, "... object is not callable"
NotCallable == <<"n", "o", "t", " ", "c", "a", "l", "l", "a", "b", "l", "e">>

\* lines 164-224, from the request to the call of the model or to an early
\* response: the new pc, user_message, resp, unhandled exception and the
\* number of calls issued
ChatToCall(d, cl) ==
    LET p == ParseInput(d)
        static_reply == StaticReply(p.text)
        done(um, r, e) == [pc |-> "done", user_message |-> um, resp |-> r,
                           unhandled |-> e, issued |-> 0]
    IN  IF p.k = "respond" THEN done(<<>>, p.resp, "none")
        ELSE IF p.k = "raise" THEN done(<<>>, InternalServerError, p.exc)
        ELSE IF ~static_reply.isNone /\ static_reply.val # ""
        THEN done(p.text, JsonReply(static_reply.val, <<>>), "none")
        ELSE IF ~cl.configured
        THEN done(p.text, BackendNotConfigured, "none")
        ELSE [pc |-> "calling", user_message |-> p.text, resp |-> NoResp,
              unhandled |-> "none", issued |-> 1]

(***************************************************************************)
(* SpecMatch: match_predefined_answer applied to bounded inputs, the       *)
(* concatenations of at most MaxFrags fragments.                           *)
(***************************************************************************)

MaxFrags == 2

Fragments == <<
    <<"l", "i", "f", "e", " ", "s", "t", "o", "r", "y">>,
    <<"S", "u", "p", "e", "r", "p", "o", "w", "e", "r">>,
    <<"g", "r", "o", "w">>,
    <<"m", "i", "s", "c", "o", "n", "c", "e", "p", "t", "i", "o", "n">>,
    <<"G", "R", "O", "W">>,
    <<"m", "i", "s", "c", "o", "n", "c", "e", "p", "t", "i">>,
    <<"x", "x", "x", "x", "x", "x", "x", "x", "x", "x", "x", "x", "x", "x", "x", "x">>,
    <<"s", "u", "p", "e", "r">>,
    <<" ", "s", "t", "o", "r", "y">>,
    <<"b", "o", "u", "n", "d">>,
    <<" ">> >>

RECURSIVE Concat(_)
Concat(parts) ==
    IF parts = <<>> THEN <<>> ELSE Head(parts) \o Concat(Tail(parts))

RECURSIVE FragSeqs(_)
FragSeqs(n) ==
    IF n = 0 THEN {<<>>}
    ELSE LET shorter == FragSeqs(n - 1)
         IN  shorter \cup {Append(s, i) : s \in {t \in shorter : Len(t) = n - 1},
                                           i \in 1..Len(Fragments)}

MatchInputs == {Concat([k \in 1..Len(s) |-> Fragments[s[k]]]) : s \in FragSeqs(MaxFrags)}

NoKeys == [text |-> Missing, reply |-> Missing, content |-> Missing]

\* None, as a response: no attribute, no key, str() gives "None"
NoResponse ==
    [isDict |-> FALSE, text |-> Missing, candidates |-> Missing, outputs |-> Missing,
     keys |-> NoKeys, str |-> PyNone.s]

\* the other functions' variables while a specification does not use them
MatchIdle == message = <<>> /\ matchPc = "idle" /\ matchResult = None /\ scored = FALSE
ExtractIdle ==
    /\ response = NoResponse
    /\ extractPc = "idle"
    /\ extractResult = Continue
    /\ caught = "none"

ChatIdle ==
    /\ client = NoClient
    /\ pc = "off"
    /\ data = PyNone
    /\ user_message = <<>>
    /\ resp = NoResp
    /\ calls = 0
    /\ raised = NoExc
    /\ unhandled = "none"

MatchInit ==
    /\ message \in MatchInputs
    /\ matchPc = "ready"
    /\ matchResult = None
    /\ scored = FALSE
    /\ ExtractIdle
    /\ ChatIdle

CallMatch ==
    /\ matchPc = "ready"
    /\ matchResult' = match_predefined_answer(message)
    /\ scored' = ReachesSimilarityPass(message)
    /\ matchPc' = "returned"
    /\ UNCHANGED <<message, extractVars, chatVars>>

MatchNext == CallMatch

SpecMatch == MatchInit /\ [][MatchNext]_vars

(***************************************************************************)
(* SpecExtract: _extract_text_from_gemini_response applied to bounded      *)
(* responses: objects with text, candidates and outputs attributes, plain  *)
(* dicts, None and an empty list.  A list holds at most MaxItems items.    *)
(***************************************************************************)

MaxItems == 2

Seqs(S, n) == UNION {[1..k -> S] : k \in 0..n}

\* [], as a response
EmptyListResponse == [NoResponse EXCEPT !.str = <<"[", "]">>]

CandItems == {
    PyDict(PyStr(<<"c">>), Missing),
    PyDict(Missing, PyStr(<<" ", "t">>)),
    PyDict(Missing, Missing),
    PyDict(PyNone, PyStr(<<>>)),
    PyObj(PyStr(<<"c">>), PyStr(<<"t">>)),
    PyObj(PyInt(<<"5">>), Missing),
    PyObj(PyInt(<<"0">>), PyStr(<<"t">>)),
    PyObj(Missing, Missing) }

OutItems == {
    PyDict(PyList(<<PyDict(Missing, PyStr(<<"a">>)), PyStr(<<"b">>)>>), Missing),
    PyDict(PyList(<<PyDict(PyStr(<<"c">>), Missing), PyInt(<<"5">>), PyNone>>), Missing),
    PyDict(PyList(<<>>), PyStr(<<"t">>)),
    PyDict(PyList(<<PyDict(PyInt(<<"5">>), Missing)>>), Missing),
    PyDict(PyStr(<<"c">>), PyStr(<<"t", " ">>)),
    PyDict(PyInt(<<"5">>), Missing),
    PyObj(PyStr(<<"c">>), Missing),
    PyObj(Missing, Missing) }

TextChoices == {Missing, PyNone, PyStr(<<>>), PyStr(<<" ", "x", " ">>)}

CandChoices == {Missing, PyNone} \cup {PyList(l) : l \in Seqs(CandItems, MaxItems)}

OutChoices == {Missing, PyNone} \cup {PyList(l) : l \in Seqs(OutItems, MaxItems)}

FewCands == {Missing, PyList(<<>>), PyList(<<PyDict(Missing, Missing)>>)}

FewOuts == {Missing, PyList(<<>>), PyList(<<PyObj(Missing, Missing)>>)}

\* what str() gives for an object: nothing, a padded text, a text
ObjectStrs == {<<>>, <<" ", "R", " ">>, <<"R">>}

ObjectResponses ==
    {[isDict |-> FALSE, text |-> x, candidates |-> c, outputs |-> o,
      keys |-> NoKeys, str |-> r] :
        x \in TextChoices, r \in ObjectStrs,
        c \in CandChoices, o \in FewOuts}
    \cup
    {[isDict |-> FALSE, text |-> x, candidates |-> c, outputs |-> o,
      keys |-> NoKeys, str |-> r] :
        x \in TextChoices, r \in ObjectStrs,
        c \in FewCands, o \in OutChoices}

\* a plain dict has none of the attributes; str() of a dict is never blank
DictResponses ==
    {[isDict |-> TRUE, text |-> Missing, candidates |-> Missing, outputs |-> Missing,
      keys |-> [text |-> x, reply |-> y, content |-> z],
      str |-> IF x.t = "missing" /\ y.t = "missing" /\ z.t = "missing"
              THEN <<"{", "}">> ELSE <<"{", "...", "}">>] :
        x \in {Missing, PyStr(<<" ">>), PyStr(<<" ", "a", " ">>), PyInt(<<"5">>)},
        y \in {Missing, PyStr(<<>>), PyStr(<<"b">>)},
        z \in {Missing, PyStr(<<"c", " ">>)}}

Responses == ObjectResponses \cup DictResponses \cup {NoResponse, EmptyListResponse}

ExtractInit ==
    /\ response \in Responses
    /\ extractPc = "ready"
    /\ extractResult = Continue
    /\ caught = "none"
    /\ MatchIdle
    /\ ChatIdle

CallExtract ==
    /\ extractPc = "ready"
    /\ extractResult' = _extract_text_from_gemini_response(response)
    /\ caught' = CaughtBy(response)
    /\ extractPc' = "returned"
    /\ UNCHANGED <<response, matchVars, chatVars>>

ExtractNext == CallExtract

SpecExtract == ExtractInit /\ [][ExtractNext]_vars

KeyOf(i) == PREDEFINED_ANSWERS[i].key
AnswerOf(i) == PREDEFINED_ANSWERS[i].answer

\* C5: a non-empty input whose lowercase form contains a key gets the answer
\* of the first such key in table order, wherever the keys stand in the
\* input, and the similarity pass is not run.
C5_FirstSubstringKeyWins ==
    (matchPc = "returned" /\ message # <<>>) =>
        \A i \in 1..NKeys :
            ( /\ Contains(Lower(message), KeyOf(i))
              /\ \A j \in 1..(i - 1) : ~Contains(Lower(message), KeyOf(j)) )
            => (matchResult = Some(AnswerOf(i)) /\ ~scored)

\* C5's case: "grow" stands before "life story" in the input, and the call
\* returned the answer of "life story", the earlier key of the table
C5_Witness ==
    /\ matchPc = "returned"
    /\ Len(message) >= 14
    /\ Lower(SubSeq(message, 1, 4)) = KeyOf(3)
    /\ Lower(SubSeq(message, 5, 14)) = KeyOf(1)
    /\ matchResult = Some(AnswerOf(1))

\* C6: with no key as a substring, a non-empty input gets an answer exactly
\* when the greatest ratio over the keys is at least 0.55 (0.55 included),
\* and the answer is that of the first key, in table order, whose ratio is
\* the greatest.
C6_SimilarityThresholdAndTieBreak ==
    ( /\ matchPc = "returned"
      /\ message # <<>>
      /\ \A i \in 1..NKeys : ~Contains(Lower(message), KeyOf(i)) )
    => LET R(i) == Ratio(Lower(message), KeyOf(i))
           greatest(i) == \A j \in 1..NKeys : FracGE(R(i), R(j))
       IN  /\ scored
           /\ (~matchResult.isNone) <=> (\E i \in 1..NKeys : FracGE(R(i), Threshold))
           /\ \A i \in 1..NKeys :
                ( /\ FracGE(R(i), Threshold)
                  /\ greatest(i)
                  /\ \A j \in 1..(i - 1) : ~greatest(j) )
                => matchResult = Some(AnswerOf(i))

\* C6's case: "life story" and "superpower" tie for the greatest ratio
\* (above 0.55) and the call returned the answer of "life story"
C6_Witness ==
    /\ matchPc = "returned"
    /\ \A i \in 1..NKeys : ~Contains(Lower(message), KeyOf(i))
    /\ Ratio(Lower(message), KeyOf(1)) = Ratio(Lower(message), KeyOf(2))
    /\ FracGE(Ratio(Lower(message), KeyOf(1)), Threshold)
    /\ \A j \in 1..NKeys : FracGE(Ratio(Lower(message), KeyOf(1)), Ratio(Lower(message), KeyOf(j)))
    /\ matchResult = Some(AnswerOf(1))

\* the inclusive threshold happens: a greatest ratio of exactly 0.55 is answered
C6_ThresholdReached ==
    /\ matchPc = "returned"
    /\ \E i \in 1..NKeys :
        /\ Ratio(Lower(message), KeyOf(i))[1] * ThresholdDen
                = ThresholdNum * Ratio(Lower(message), KeyOf(i))[2]
        /\ \A j \in 1..NKeys : FracGE(Ratio(Lower(message), KeyOf(i)), Ratio(Lower(message), KeyOf(j)))
        /\ matchResult = Some(AnswerOf(i))

(***************************************************************************)
(* Spec: the handler serving one request after another, with a client      *)
(* fixed at start-up, bounded request bodies, and a model that returns any *)
(* of the sample responses or raises.                                      *)
(***************************************************************************)

\* the elements of a messages list before its last: at most MaxEarlier
MaxEarlier == 1

Clients == {
    NoClient,
    Client({"models.generate_content"}),
    Client({"models.generate_content", "generate", "call"}),
    Client({"generate", "predict"}),
    Client({"predict"}),
    Client({"call"}),
    Client({}) }

MessageChoices == {
    Missing,
    PyStr(<<>>),
    PyStr(<<" ", "\t">>),
    PyStr(<<" ", "G", "r", "o", "w", " ">>),
    PyStr(<<"w", "e", "a", "t", "h", "e", "r">>),
    PyInt(<<"5">>) }

LastChoices == {
    PyStr(<<" ", "h", "i", " ">>),
    PyStr(<<>>),
    PyInt(<<"5">>),
    MsgDict(PyStr(<<" ", "c", " ">>), Missing, Missing),
    MsgDict(Missing, PyStr(<<"s", "u", "p", "e", "r", "p", "o", "w", "r">>), Missing),
    MsgDict(PyStr(<<>>), Missing, PyStr(<<"t">>)),
    MsgDict(Missing, Missing, Missing),
    MsgDict(PyInt(<<"0">>), Missing, Missing),
    MsgDict(PyInt(<<"5">>), Missing, Missing),
    MsgDict(PyNone, PyList(<<PyStr(<<"x">>)>>), Missing) }

\* an earlier message, which would match a canned answer were it used
Earlier == PyStr(<<"g", "r", "o", "w">>)

MessagesChoices ==
    {Missing, PyStr(<<" ", "h", "i">>), PyStr(<<>>), PyInt(<<"5">>), PyList(<<>>)}
    \cup {PyList([i \in 1..n |-> Earlier] \o <<last>>) :
                n \in 0..MaxEarlier, last \in LastChoices}

\* the bodies that are JSON objects
ObjectBodies ==
    {Body(Missing, Missing, TRUE)}
    \cup {Body(m, ms, FALSE) : m \in MessageChoices, ms \in MessagesChoices}

\* no body (or one that is not JSON), and the JSON values that are no objects
OtherBodies ==
    {PyNone, PyStr(<<>>), PyStr(<<"h", "i">>), PyStr(MessageChars), PyInt(<<"0">>),
     PyInt(<<"5">>), PyList(<<>>), PyList(<<PyInt(<<"5">>)>>),
     PyList(<<PyStr(MessageChars)>>), PyList(<<PyStr(MessagesChars)>>)}

Bodies == ObjectBodies \cup OtherBodies

SampleCands ==
    FewCands \cup {PyList(<<PyObj(PyInt(<<"5">>), Missing)>>),
                   PyList(<<PyDict(PyStr(<<"c">>), Missing)>>)}

ModelResponses ==
    {[isDict |-> FALSE, text |-> x, candidates |-> c, outputs |-> o,
      keys |-> NoKeys, str |-> r] :
        x \in TextChoices, r \in ObjectStrs, c \in SampleCands, o \in FewOuts}
    \cup DictResponses \cup {NoResponse, EmptyListResponse}

ExcMessages == {<<"t", "i", "m", "e", "o", "u", "t">>, <<>>}

Init ==
    /\ client \in Clients
    /\ pc = "idle"
    /\ data = PyNone
    /\ user_message = <<>>
    /\ resp = NoResp
    /\ calls = 0
    /\ raised = NoExc
    /\ unhandled = "none"
    /\ MatchIdle
    /\ ExtractIdle

\* a request arrives and chat() runs up to its response or to the call
Request(d) ==
    /\ pc = "idle"
    /\ LET to == ChatToCall(d, client)
       IN  /\ pc' = to.pc
           /\ user_message' = to.user_message
           /\ resp' = to.resp
           /\ unhandled' = to.unhandled
           /\ calls' = calls + to.issued
    /\ data' = d
    /\ UNCHANGED <<client, raised, matchVars, extractVars>>

\* the call returns rsp; chat() answers with the text extracted from it
ModelReturns(rsp) ==
    /\ pc = "calling"
    /\ Convention(client.caps) = "call" => "call" \in client.caps
    /\ response' = rsp
    /\ resp' = GeneratedReply(rsp)
    /\ pc' = "done"
    /\ UNCHANGED <<client, data, user_message, calls, raised, unhandled, matchVars,
                   extractPc, extractResult, caught>>

\* the call raises an exception whose text is e (a client that is not even
\* callable raises TypeError at line 224); chat() answers in its except clause
ModelRaises(e) ==
    /\ pc = "calling"
    /\ (Convention(client.caps) = "call" /\ "call" \notin client.caps) => e = NotCallable
    /\ raised' = Exc(e)
    /\ resp' = GeminiError(e)
    /\ pc' = "done"
    /\ UNCHANGED <<client, data, user_message, calls, unhandled, matchVars, extractVars>>

\* the response is sent; the next request finds fresh locals
NextRequest ==
    /\ pc = "done"
    /\ pc' = "idle"
    /\ data' = PyNone
    /\ user_message' = <<>>
    /\ resp' = NoResp
    /\ calls' = 0
    /\ raised' = NoExc
    /\ unhandled' = "none"
    /\ response' = NoResponse
    /\ UNCHANGED <<client, matchVars, extractPc, extractResult, caught>>

Next ==
    \/ \E d \in ObjectBodies : Request(d)
    \/ \E d \in OtherBodies : Request(d)
    \/ \E rsp \in ModelResponses : ModelReturns(rsp)
    \/ \E e \in ExcMessages \cup {NotCallable} : ModelRaises(e)
    \/ NextRequest

Spec == Init /\ [][Next]_vars

\* what section 4.3 calls a violation: the body is no JSON object, or it has
\* neither a message string nor a messages value that is a string or a
\* non-empty list whose last element is a string or an object with a string
\* under content, message or text, or the text found is blank
InputViolation(d) ==
    IF d.t # "dict" THEN TRUE
    ELSE IF d.message.t = "str" THEN Strip(d.message.s) = <<>>
    ELSE IF d.messages.t = "str" THEN Strip(d.messages.s) = <<>>
    ELSE IF d.messages.t = "list" /\ d.messages.items # <<>>
    THEN LET last == d.messages.items[Len(d.messages.items)]
         IN  IF last.t = "str" THEN Strip(last.s) = <<>>
             ELSE IF last.t = "dict"
             THEN LastText(last).t # "str" \/ Strip(LastText(last).s) = <<>>
             ELSE TRUE
    ELSE TRUE

\* C1 as stated: every input violation ends in a 400 response with an error
\* field, never in an unhandled exception or a server error.
C1_Original ==
    (pc # "idle" /\ InputViolation(data)) =>
        /\ pc = "done"
        /\ unhandled = "none"
        /\ resp.json
        /\ resp.status = 400
        /\ resp.keys = {"error"}

\* C2: the model is called only for a request whose text is not blank and
\* matches no canned answer, with a client configured; it is called at most
\* once for a request, also after a failure; a request that fails
\* validation or matches a canned answer is answered without a call.
C2_CallOnlyWhenUnmatchedAndConfigured ==
    /\ calls <= 1
    /\ pc = "calling" => calls = 1
    /\ calls = 1 =>
        /\ pc \in {"calling", "done"}
        /\ ~InputViolation(data)
        /\ user_message # <<>>
        /\ match_predefined_answer(user_message).isNone
        /\ client.configured
    /\ raised.isExc => (pc = "done" /\ calls = 1)
    /\ (pc = "done" /\ user_message # <<>>
            /\ ~match_predefined_answer(user_message).isNone) =>
        (calls = 0 /\ resp = JsonReply(match_predefined_answer(user_message).val, <<>>))

\* C2's case: the last of several messages matched no canned answer, the
\* model was called once and its reply sent
C2_Witness ==
    /\ pc = "done"
    /\ calls = 1
    /\ data.t = "dict"
    /\ data.messages.t = "list"
    /\ Len(data.messages.items) > 1
    /\ user_message # <<>>
    /\ resp.keys = {"reply"}

\* C3 as stated: every response is a JSON object with exactly one of reply
\* and error, reply with the status 200 and error with 400 or 500.
C3_Original ==
    pc = "done" =>
        /\ resp.json
        /\ resp.keys = {"reply"} \/ resp.keys = {"error"}
        /\ resp.keys = {"reply"} <=> resp.status = 200
        /\ resp.keys = {"error"} <=> resp.status \in {400, 500}

\* C4 as stated: the body {} is answered 400 with the error
\* "No 'message' or 'messages' provided".
C4_Original ==
    ( /\ pc = "done"
      /\ data.t = "dict"
      /\ data.message.t = "missing" /\ data.messages.t = "missing" /\ ~data.other )
    => resp = JsonError(400, "No 'message' or 'messages' provided", <<>>)

\* C7: an exception raised by the call of the model, under any calling
\* convention, is answered 500 with an error field made of "Gemini error: "
\* and the exception's text; no reply is sent, the call is not repeated and
\* nothing leaves the handler.
C7_CallFailureBecomesServerError ==
    (pc = "done" /\ raised.isExc) =>
        /\ resp.json
        /\ resp.status = 500
        /\ resp.keys = {"error"}
        /\ resp.lit = "Gemini error: "
        /\ resp.arg = raised.msg
        /\ calls = 1
        /\ unhandled = "none"

\* C7's case: a client called through predict raised, and the 500 response
\* carries the exception's text
C7_Witness ==
    /\ pc = "done"
    /\ Convention(client.caps) = "predict"
    /\ raised.isExc
    /\ raised.msg # <<>>
    /\ resp = JsonError(500, "Gemini error: ", raised.msg)

\* C8: without a client, a request whose text is not blank is answered 200:
\* with the canned answer when one matches, else with the fixed message that
\* the backend is not configured; no call is issued.
C8_NoClientFallbackIsSuccess ==
    ~client.configured =>
        /\ calls = 0
        /\ pc # "calling"
        /\ (pc = "done" /\ user_message # <<>>) =>
            /\ resp.json
            /\ resp.status = 200
            /\ resp.keys = {"reply"}
            /\ resp.arg = <<>>
            /\ resp.lit = IF match_predefined_answer(user_message).isNone
                          THEN "Gemini backend is not configured on this server. ..."
                          ELSE match_predefined_answer(user_message).val

\* C8's case: no client, a text that matches no canned answer, and the
\* fixed message sent as a reply
C8_Witness ==
    /\ ~client.configured
    /\ pc = "done"
    /\ user_message # <<>>
    /\ match_predefined_answer(user_message).isNone
    /\ resp.status = 200
    /\ resp.lit = "Gemini backend is not configured on this server. ..."

\* C9: the call never raises and returns a string, whatever the response;
\* an error caught by the outer handler gives str(response), and one caught
\* around the outputs step ends in the trimmed str(response).
C9_NeverRaisesReturnsString ==
    extractPc = "returned" =>
        /\ extractResult.k = "return"
        /\ extractResult.v.t = "str"
        /\ caught = "outer" => extractResult.v.s = response.str
        /\ caught = "inner" => extractResult.v.s = Strip(response.str)

\* C9's case: a candidate's content is a truthy non-string, str.join raised,
\* and the call returned str(response), untrimmed
C9_Witness ==
    /\ extractPc = "returned"
    /\ caught = "outer"
    /\ response.candidates.t = "list"
    /\ \E i \in 1..Len(response.candidates.items) :
            response.candidates.items[i].content.t = "int"
    /\ response.str # Strip(response.str)
    /\ extractResult = Return(PyStr(response.str))

\* an error around the outputs step is swallowed too
C9_InnerWitness ==
    /\ extractPc = "returned"
    /\ caught = "inner"
    /\ extractResult = Return(PyStr(Strip(response.str)))

NoTextFrom(outcome) ==
    outcome.k = "next" \/ (outcome.k = "return" /\ outcome.v.s = <<>>)

\* C10 as stated: a response whose text is no string, whose candidates and
\* outputs yield no text and which is no dict with a usable field ends in
\* the trimmed str(response), not in an empty string.
C10_Original ==
    ( /\ extractPc = "returned"
      /\ response.text.t # "str"
      /\ NoTextFrom(CandidatesStep(response))
      /\ response.outputs.t = "missing" \/ NoTextFrom(OutputsBody(response))
      /\ MappingStep(response).k = "next" )
    => extractResult = Return(PyStr(Strip(response.str)))

\* C10 amended: the steps are tried in the order direct text, candidates,
\* outputs, mapping, string conversion, and the first that applies decides,
\* also when the text it extracts is empty: direct text applies to a string,
\* candidates to a non-empty list, outputs to any list (an empty one too).
\* Only a response to which neither list step applies (or whose outputs
\* step raised) goes on to the mapping and the trimmed str(response).
C10_FirstApplicableStepDecides ==
    extractPc = "returned" =>
        LET textIsStr == response.text.t = "str"
            candsApply == response.candidates.t = "list" /\ response.candidates.items # <<>>
            outsApply == response.outputs.t = "list"
            cj == JoinStrip(CandidateParts(response.candidates.items))
            oj == JoinStrip(OutputParts(response.outputs.items))
        IN  /\ textIsStr => extractResult = Return(PyStr(Strip(response.text.s)))
            /\ (~textIsStr /\ candsApply /\ cj.k = "return") => extractResult = cj
            /\ (~textIsStr /\ ~candsApply /\ outsApply /\ oj.k = "return")
                    => extractResult = oj
            /\ (~textIsStr /\ ~candsApply /\ (~outsApply \/ oj.k = "raise"))
                    => extractResult = IF MappingStep(response).k = "return"
                                       THEN MappingStep(response)
                                       ELSE Return(PyStr(Strip(response.str)))

\* C10's case: an empty outputs list on an object whose str() is not blank:
\* the call returned the empty string
C10_Witness ==
    /\ extractPc = "returned"
    /\ response.text.t # "str"
    /\ response.candidates.t # "list"
    /\ response.outputs = PyList(<<>>)
    /\ Strip(response.str) # <<>>
    /\ extractResult = Return(PyStr(<<>>))

====
